---- MODULE Spec2Model ----
(***************************************************************************)
(* A model of monorepo-dep-checker's DependencyChecker (src/lib.ts, kept   *)
(* in this tree as src/unnamed/part_000): version normalisation, version   *)
(* comparison, the aggregation into dependencyMap, the missing/extra       *)
(* check and the update of package manifests.                              *)
(*                                                                         *)
(* Strings are sequences of lexical tokens, so that startsWith, the        *)
(* range-prefix regular expression and concatenation are computed and not  *)
(* assumed.  JavaScript objects and Maps are insertion-ordered sequences   *)
(* of [name, value] pairs; JavaScript Sets are sets.                       *)
(***************************************************************************)
EXTENDS Naturals, Sequences, FiniteSets, TLC

VARIABLES
    files,              \* the file system: manifest path -> parsed content
    packagesInput,      \* DependencyChecker.packagesInput, split at ","
    packageJsonFiles,   \* DependencyChecker.packageJsonFiles
    dependencyMap,      \* DependencyChecker.dependencyMap
    workspacePackages,  \* DependencyChecker.workspacePackages
    lastRun,            \* the options of the last run(), or NoRun
    outcome,            \* the promise of the last run(): "resolved",
                        \* "rejected", or "none" before the first run
    runs,               \* the number of run() calls on this instance
    filesBefore,        \* the file system as the last run() found it
    written,            \* the paths the last run() wrote, in order
    updates,            \* what updateDependencies returned
    conflictingDeps,    \* what the version report listed
    missingDeps,        \* checkMissingDependencies' missingDeps
    uniqueMissingDeps,  \* checkMissingDependencies' uniqueMissingDeps
    uniqueExtraDeps,    \* checkMissingDependencies' uniqueExtraDeps
    version1,           \* compareDependencyVersions: first argument
    version2,           \* compareDependencyVersions: second argument
    comparison          \* the comparison displayed for (version1, version2)

vars == <<files, packagesInput, packageJsonFiles, dependencyMap,
          workspacePackages, lastRun, outcome, runs, filesBefore, written,
          updates, conflictingDeps, missingDeps, uniqueMissingDeps,
          uniqueExtraDeps, version1, version2, comparison>>

checkerVars == <<files, packagesInput, packageJsonFiles, dependencyMap,
                 workspacePackages, lastRun, outcome, runs, filesBefore,
                 written, updates, conflictingDeps, missingDeps,
                 uniqueMissingDeps, uniqueExtraDeps>>

compareVars == <<version1, version2, comparison>>

(***************************************************************************)
(* Version strings.                                                        *)
(***************************************************************************)

\* One lexical unit of a version string.
Tok(kind, text, nums, prerelease) ==
    [k |-> kind, s |-> text, n |-> nums, pre |-> prerelease]

\* A range-operator character: one of ~ ^ < > =
Op(c) == Tok("op", c, <<>>, <<>>)
\* A whitespace character.
Sp == Tok("sp", " ", <<>>, <<>>)
\* The literal text "workspace:".
WorkspaceProtocol == Tok("lit", "workspace:", <<>>, <<>>)
\* The literal text "*".
Star == Tok("lit", "*", <<>>, <<>>)
\* Any other text without operator characters or whitespace ("latest").
Word(w) == Tok("lit", w, <<>>, <<>>)
\* The text "M.m.p".
Num(major, minor, patch) == Tok("num", "", <<major, minor, patch>>, <<>>)
\* The text "M.m.p-id" with one numeric pre-release identifier.
NumPre(major, minor, patch, id) ==
    Tok("num", "", <<major, minor, patch>>, <<id>>)

\* The value null (no string holds this token).
Null == <<Tok("null", "", <<>>, <<>>)>>

\* JavaScript truthiness of a string-or-null value.
Truthy(v) == v # Null /\ v # <<>>

\* version.startsWith("workspace:")
StartsWithWorkspace(version) ==
    Len(version) > 0 /\ version[1] = WorkspaceProtocol

\* version.replace("workspace:", ""), used on a string that starts with it
RemoveWorkspaceProtocol(version) ==
    IF StartsWithWorkspace(version) THEN Tail(version) ELSE version

\* The length of the match of /^[~^<>=]+\s*/ in version (0: no match).
RECURSIVE RunLength(_, _, _)
RunLength(version, i, kind) ==
    IF i <= Len(version) /\ version[i].k = kind
    THEN 1 + RunLength(version, i + 1, kind)
    ELSE 0

RangePrefixLength(version) ==
    LET ops == RunLength(version, 1, "op")
    IN  IF ops = 0 THEN 0 ELSE ops + RunLength(version, ops + 1, "sp")

\* version.replace(/^[~^<>=]+\s*/g, "")
StripRangePrefix(version) ==
    SubSeq(version, RangePrefixLength(version) + 1, Len(version))

\* version.match(/^[~^<>=]+\s*/)?.[0] || ''
RangePrefix(version) == SubSeq(version, 1, RangePrefixLength(version))

(***************************************************************************)
(* The semver package, as the checker calls it.                            *)
(***************************************************************************)

\* String.prototype.trim, which semver's parser applies first.
RECURSIVE TrimStart(_)
TrimStart(s) ==
    IF Len(s) > 0 /\ s[1].k = "sp" THEN TrimStart(Tail(s)) ELSE s

RECURSIVE TrimEnd(_)
TrimEnd(s) ==
    IF Len(s) > 0 /\ s[Len(s)].k = "sp"
    THEN TrimEnd(SubSeq(s, 1, Len(s) - 1))
    ELSE s

Trim(s) == TrimEnd(TrimStart(s))

\* semver.valid(s) is not null
semverValid(s) == Len(Trim(s)) = 1 /\ Trim(s)[1].k = "num"

\* semver.parse(s) of a valid s
semverParse(s) == Trim(s)[1]

\* compareIdentifiers on numeric identifiers: "lt", "eq" or "gt"
compareIdentifiers(x, y) ==
    IF x < y THEN "lt" ELSE IF x > y THEN "gt" ELSE "eq"

\* SemVer.compareMain
compareMain(a, b) ==
    IF a.n[1] # b.n[1] THEN compareIdentifiers(a.n[1], b.n[1])
    ELSE IF a.n[2] # b.n[2] THEN compareIdentifiers(a.n[2], b.n[2])
    ELSE compareIdentifiers(a.n[3], b.n[3])

\* SemVer.comparePre: a version without pre-release identifiers is the
\* greater one; identifiers are compared left to right, the shorter list
\* being the smaller.
RECURSIVE comparePreFrom(_, _, _)
comparePreFrom(p, q, i) ==
    IF i > Len(p) /\ i > Len(q) THEN "eq"
    ELSE IF i > Len(q) THEN "gt"
    ELSE IF i > Len(p) THEN "lt"
    ELSE IF p[i] = q[i] THEN comparePreFrom(p, q, i + 1)
    ELSE compareIdentifiers(p[i], q[i])

comparePre(a, b) ==
    IF Len(a.pre) > 0 /\ Len(b.pre) = 0 THEN "lt"
    ELSE IF Len(a.pre) = 0 /\ Len(b.pre) > 0 THEN "gt"
    ELSE IF Len(a.pre) = 0 /\ Len(b.pre) = 0 THEN "eq"
    ELSE comparePreFrom(a.pre, b.pre, 1)

\* SemVer.compare
semverCompare(a, b) ==
    IF compareMain(a, b) # "eq" THEN compareMain(a, b) ELSE comparePre(a, b)

\* semver.diff(v1, v2) of two valid versions (semver 7.5.4, the version
\* package.json asks for); "null" stands for its result null.
semverDiff(v1, v2) ==
    LET a == semverParse(v1)
        b == semverParse(v2)
        comparison_ == semverCompare(a, b)
        highVersion == IF comparison_ = "gt" THEN a ELSE b
        lowVersion == IF comparison_ = "gt" THEN b ELSE a
        highHasPre == Len(highVersion.pre) > 0
        lowHasPre == Len(lowVersion.pre) > 0
    IN  IF comparison_ = "eq" THEN "null"
        ELSE IF lowHasPre /\ ~highHasPre
        THEN IF lowVersion.n[3] = 0 /\ lowVersion.n[2] = 0 THEN "major"
             ELSE IF highVersion.n[3] # 0 THEN "patch"
             ELSE IF highVersion.n[2] # 0 THEN "minor"
             ELSE "major"
        ELSE IF a.n[1] # b.n[1]
             THEN (IF highHasPre THEN "premajor" ELSE "major")
        ELSE IF a.n[2] # b.n[2]
             THEN (IF highHasPre THEN "preminor" ELSE "minor")
        ELSE IF a.n[3] # b.n[3]
             THEN (IF highHasPre THEN "prepatch" ELSE "patch")
        ELSE "prerelease"

(***************************************************************************)
(* The Version Normalizer and the Workspace Classifier.                    *)
(***************************************************************************)

\* DependencyChecker.isWorkspaceDep
isWorkspaceDep(version) ==
    Truthy(version) /\ (StartsWithWorkspace(version) \/ version = <<Star>>)

\* A mutant of getSemverVersion: only one leading ^ or ~ is removed, as by
\* version.replace(/^[~^]/, "")
getSemverVersionCaretTilde(version) ==
    IF StartsWithWorkspace(version)
    THEN LET workspaceVersion == RemoveWorkspaceProtocol(version)
         IN  IF workspaceVersion = <<Star>> THEN Null
             ELSE IF semverValid(workspaceVersion) THEN workspaceVersion
             ELSE Null
    ELSE IF version = <<Star>> \/ version = <<Word("latest")>> THEN Null
    ELSE LET cleanVersion ==
                 IF Len(version) > 0 /\ version[1] \in {Op("^"), Op("~")}
                 THEN Tail(version) ELSE version
         IN  IF semverValid(cleanVersion) THEN cleanVersion ELSE Null

\* DependencyChecker.getSemverVersion
getSemverVersion(version) ==
    IF StartsWithWorkspace(version)
    THEN LET workspaceVersion == RemoveWorkspaceProtocol(version)
         IN  IF workspaceVersion = <<Star>> THEN Null
             ELSE IF semverValid(workspaceVersion) THEN workspaceVersion
             ELSE Null
    ELSE IF version = <<Star>> \/ version = <<Word("latest")>> THEN Null
    ELSE LET cleanVersion == StripRangePrefix(version)
         IN  IF semverValid(cleanVersion) THEN cleanVersion ELSE Null

\* A mutant of compareDependencyVersions: the fields are compared with <
\* where semver.diff compares them with !==
compareDependencyVersionsLessThan(v1raw, v2raw) ==
    LET v1 == getSemverVersion(v1raw)
        v2 == getSemverVersion(v2raw)
    IN  IF ~Truthy(v1) \/ ~Truthy(v2) THEN "unknown"
        ELSE IF ~semverValid(v1) \/ ~semverValid(v2) THEN "unknown"
        ELSE IF semverParse(v1).n[1] < semverParse(v2).n[1] THEN "major"
        ELSE IF semverParse(v1).n[2] < semverParse(v2).n[2] THEN "minor"
        ELSE IF semverParse(v1).n[3] < semverParse(v2).n[3] THEN "patch"
        ELSE "unknown"

\* A mutant of compareDependencyVersions: a version that does not
\* normalize is compared as "0.0.0"
compareDependencyVersionsDefaultZero(v1raw, v2raw) ==
    LET v1 == IF Truthy(getSemverVersion(v1raw)) THEN getSemverVersion(v1raw)
              ELSE <<Num(0, 0, 0)>>
        v2 == IF Truthy(getSemverVersion(v2raw)) THEN getSemverVersion(v2raw)
              ELSE <<Num(0, 0, 0)>>
    IN  IF ~semverValid(v1) \/ ~semverValid(v2) THEN "unknown"
        ELSE IF semverDiff(v1, v2) = "null" THEN "unknown"
        ELSE semverDiff(v1, v2)

\* DependencyChecker.compareDependencyVersions
compareDependencyVersions(v1raw, v2raw) ==
    LET v1 == getSemverVersion(v1raw)
        v2 == getSemverVersion(v2raw)
    IN  IF ~Truthy(v1) \/ ~Truthy(v2) THEN "unknown"
        \* semver.diff throws on an invalid version: catch { return "unknown" }
        ELSE IF ~semverValid(v1) \/ ~semverValid(v2) THEN "unknown"
        ELSE IF semverDiff(v1, v2) = "null" THEN "unknown"
        ELSE semverDiff(v1, v2)

(***************************************************************************)
(* How displayVersionDifferences shows one comparison.                     *)
(***************************************************************************)

\* The category in the line "Difference (...)": semverDiff || "unknown"
DifferenceLabel(semverDiff_) ==
    IF semverDiff_ = "" THEN "unknown" ELSE semverDiff_

\* The branch taken under "Recommended action:"
RecommendedAction(v1, v2, semverDiff_) ==
    IF StartsWithWorkspace(v1) \/ StartsWithWorkspace(v2) THEN "workspace"
    ELSE IF semverDiff_ \in {"major", "minor", "patch"} THEN semverDiff_
    ELSE "not available"

\* The key of severityCount that the comparison is counted under
SeverityKey(v1, v2, semverDiff_) ==
    IF StartsWithWorkspace(v1) \/ StartsWithWorkspace(v2) THEN "workspace"
    ELSE IF semverDiff_ = "" THEN "unknown" ELSE semverDiff_

\* The keys of severityCount that the "Severity breakdown" prints
PrintedSeverities == {"workspace", "major", "minor", "patch", "unknown"}

\* One entry of ConflictingDep.comparisons, with what is displayed for it
Comparison(v1, v2) ==
    LET semverDiff_ == compareDependencyVersions(v1, v2)
    IN  [version1 |-> v1, version2 |-> v2, semverDiff |-> semverDiff_,
         label |-> DifferenceLabel(semverDiff_),
         action |-> RecommendedAction(v1, v2, semverDiff_),
         severity |-> SeverityKey(v1, v2, semverDiff_)]

(***************************************************************************)
(* JavaScript objects and Maps: insertion-ordered [name, value] pairs.     *)
(***************************************************************************)

\* name in obj
Has(obj, name) == \E i \in DOMAIN obj : obj[i].name = name

\* obj[name] of a name that obj holds
Get(obj, name) == obj[CHOOSE i \in DOMAIN obj : obj[i].name = name].value

\* obj[name] of a string-valued object, Null standing for undefined
Lookup(obj, name) == IF Has(obj, name) THEN Get(obj, name) ELSE Null

\* obj[name] = value: an old key keeps its place, a new one goes last
Put(obj, name, value) ==
    IF Has(obj, name)
    THEN [i \in DOMAIN obj |->
            IF obj[i].name = name THEN [name |-> name, value |-> value]
            ELSE obj[i]]
    ELSE Append(obj, [name |-> name, value |-> value])

\* { ...a, ...b }
RECURSIVE Spread(_, _)
Spread(a, b) ==
    IF b = <<>> THEN a
    ELSE Spread(Put(a, Head(b).name, Head(b).value), Tail(b))

\* Object.keys(obj) as a set
Keys(obj) == {obj[i].name : i \in DOMAIN obj}

(***************************************************************************)
(* The file system.                                                        *)
(***************************************************************************)

AppPath == "app/package.json"
PackagesDir == "packages"
Pkg1Path == "packages/pkg1/package.json"
Pkg2Path == "packages/pkg2/package.json"

\* interface PackageJson, with how the file's text is laid out: as its
\* author wrote it ("original") or as JSON.stringify(.., null, 2) + "\n"
\* writes it ("stringify").  An absent section is the empty object.
\* writable is the file's permission: fs.writeFileSync throws on a file
\* that is not writable.
PackageJson(name, dependencies, devDependencies, peerDependencies) ==
    [name |-> name, dependencies |-> dependencies,
     devDependencies |-> devDependencies,
     peerDependencies |-> peerDependencies, layout |-> "original",
     writable |-> TRUE]

\* A file whose text JSON.parse rejects
InvalidJson ==
    [name |-> "", dependencies |-> <<>>, devDependencies |-> <<>>,
     peerDependencies |-> <<>>, layout |-> "invalid", writable |-> TRUE]

\* fs.existsSync(path) of a package.json path
existsSync(fs, path) == path \in DOMAIN fs

\* fs.statSync(path).isDirectory()
isDirectory(path) == path = PackagesDir

\* fs.statSync(path) throws: nothing is at the path
StatThrows(fs, path) == ~isDirectory(path) /\ ~existsSync(fs, path)

\* A mutant of Readable: text that does not parse is read as a manifest
ReadableWhenPresent(fs, path) == existsSync(fs, path)

\* JSON.parse(fs.readFileSync(path, "utf8")) returns: the file is there
\* and its text parses
Readable(fs, path) == existsSync(fs, path) /\ fs[path].layout # "invalid"

\* The elements of a list before the first one that makes a call throw
RECURSIVE ReadablePrefix(_, _)
ReadablePrefix(fs, paths) ==
    IF paths = <<>> \/ ~Readable(fs, Head(paths)) THEN <<>>
    ELSE <<Head(paths)>> \o ReadablePrefix(fs, Tail(paths))

RECURSIVE StatPrefix(_, _)
StatPrefix(fs, paths) ==
    IF paths = <<>> \/ StatThrows(fs, Head(paths)) THEN <<>>
    ELSE <<Head(paths)>> \o StatPrefix(fs, Tail(paths))

\* fs.readdirSync(dir) joined with "package.json", the entries that exist
DirectoryManifests(fs, dir) ==
    SelectSeq(<<Pkg1Path, Pkg2Path>>, LAMBDA path : existsSync(fs, path))

\* fs.writeFileSync(path, JSON.stringify(packageJson, null, 2) + "\n")
writeFileSync(fs, path, packageJson) ==
    [fs EXCEPT ![path] = [packageJson EXCEPT !.layout = "stringify"]]

(***************************************************************************)
(* Discovery.                                                              *)
(***************************************************************************)

\* The manifests one entry of packagesInput stands for
RECURSIVE InputManifests(_, _)
InputManifests(fs, paths) ==
    IF paths = <<>> THEN <<>>
    ELSE (IF isDirectory(Head(paths))
          THEN DirectoryManifests(fs, Head(paths))
          ELSE <<Head(paths)>>)
         \o InputManifests(fs, Tail(paths))

\* DependencyChecker.findWorkspacePackages: the names it adds, up to the
\* first manifest whose read throws
findWorkspacePackages(fs, input, workspace) ==
    LET read == ReadablePrefix(fs, InputManifests(fs, StatPrefix(fs, input)))
    IN  workspace \cup {fs[read[i]].name : i \in DOMAIN read}

\* DependencyChecker.findPackageJsonFiles: the list it has built, up to the
\* first path whose statSync throws
findPackageJsonFiles(fs, input) ==
    <<AppPath>> \o InputManifests(fs, StatPrefix(fs, input))

\* findPackageJsonFiles throws
FindThrows(fs, input) == \E i \in DOMAIN input : StatThrows(fs, input[i])

\* The reads of the manifests throw: findWorkspacePackages reads every
\* package manifest, checkMissingDependencies and analyzeDependencies read
\* the root manifest
ReadThrows(fs, input) ==
    \E path \in {AppPath} \cup
                 {InputManifests(fs, input)[i] :
                      i \in DOMAIN InputManifests(fs, input)} :
        ~Readable(fs, path)

\* DependencyChecker.isWorkspacePackage
isWorkspacePackage(workspace, packageName) == packageName \in workspace

\* A mutant of shouldIncludeDependency: the name is not looked up among the
\* workspace packages
shouldIncludeDependencyAnyName(workspace, depName, version, packageJson) ==
    IF isWorkspaceDep(version) THEN FALSE
    ELSE LET allWorkspaceDeps ==
                 Spread(Spread(packageJson.dependencies,
                               packageJson.devDependencies),
                        packageJson.peerDependencies)
         IN  ~\E i \in DOMAIN allWorkspaceDeps :
                 /\ allWorkspaceDeps[i].name = depName
                 /\ isWorkspaceDep(allWorkspaceDeps[i].value)

\* A mutant of shouldIncludeDependency: only the version passed in is
\* tested, not what the manifest's sections declare
shouldIncludeDependencyOwnVersionOnly(workspace, depName, version, packageJson) ==
    IF isWorkspaceDep(version) THEN FALSE
    ELSE ~isWorkspacePackage(workspace, depName)

\* DependencyChecker.shouldIncludeDependency
shouldIncludeDependency(workspace, depName, version, packageJson) ==
    IF isWorkspaceDep(version) THEN FALSE
    ELSE IF isWorkspacePackage(workspace, depName) THEN FALSE
    ELSE LET allWorkspaceDeps ==
                 Spread(Spread(packageJson.dependencies,
                               packageJson.devDependencies),
                        packageJson.peerDependencies)
         IN  ~\E i \in DOMAIN allWorkspaceDeps :
                 /\ allWorkspaceDeps[i].name = depName
                 /\ isWorkspaceDep(allWorkspaceDeps[i].value)

(***************************************************************************)
(* checkMissingDependencies.                                               *)
(***************************************************************************)

\* The { name, version } records pushed for the entries kept
Reported(kept) ==
    [i \in DOMAIN kept |->
        [name |-> kept[i].name, version |-> kept[i].value]]

\* A mutant of AppDeps: the root's devDependencies are left out
AppDepsWithoutDev(appPackageJson) ==
    Spread(appPackageJson.dependencies, appPackageJson.peerDependencies)

\* const appDeps = { ...dependencies, ...devDependencies, ...peerDependencies }
AppDeps(appPackageJson) ==
    Spread(Spread(appPackageJson.dependencies,
                  appPackageJson.devDependencies),
           appPackageJson.peerDependencies)

\* A mutant of PackageDeps: the package's peerDependencies are left out
PackageDepsWithoutPeer(packageJson) == packageJson.dependencies

\* const packageDeps = { ...dependencies, ...peerDependencies }
PackageDeps(packageJson) ==
    Spread(packageJson.dependencies, packageJson.peerDependencies)

\* The test under which a package's dependency is pushed to missing
IsMissing(workspace, appDeps, packageJson, dep, version) ==
    \/ /\ ~Truthy(Lookup(appDeps, dep))
       /\ shouldIncludeDependency(workspace, dep, version, packageJson)
    \/ /\ Truthy(Lookup(packageJson.peerDependencies, dep))
       /\ ~Truthy(Lookup(appDeps, dep))

\* The test under which a root dependency is pushed to extraDeps
IsExtra(workspace, appPackageJson, packageDeps, dep, version) ==
    /\ ~Truthy(Lookup(packageDeps, dep))
    /\ shouldIncludeDependency(workspace, dep, version, appPackageJson)

\* The body of the forEach over the package manifests: missing and
\* extraDeps of one package
MissingOf(workspace, appPackageJson, packageJson) ==
    LET appDeps == AppDeps(appPackageJson)
        packageDeps == PackageDeps(packageJson)
    IN  [missing |->
            Reported(SelectSeq(packageDeps,
                LAMBDA e : IsMissing(workspace, appDeps, packageJson,
                                     e.name, e.value))),
         extraDeps |->
            Reported(SelectSeq(appDeps,
                LAMBDA e : IsExtra(workspace, appPackageJson, packageDeps,
                                   e.name, e.value)))]

\* The forEach over packageJsonFiles without the root: the missingDeps Map,
\* keyed by package name
RECURSIVE MissingDepsOf(_, _, _, _)
MissingDepsOf(fs, workspace, paths, acc) ==
    IF paths = <<>> THEN acc
    ELSE LET filePath == Head(paths)
             found == MissingOf(workspace, fs[AppPath], fs[filePath])
         IN  MissingDepsOf(fs, workspace, Tail(paths),
                 IF filePath = AppPath THEN acc
                 ELSE IF found.missing # <<>> \/ found.extraDeps # <<>>
                 THEN Put(acc, fs[filePath].name,
                          [path |-> filePath, missing |-> found.missing,
                           extraDeps |-> found.extraDeps])
                 ELSE acc)

\* uniqueMissingDeps and uniqueExtraDeps: every name pushed, of any package
NamesPushed(fs, workspace, paths, field) ==
    UNION { LET found == MissingOf(workspace, fs[AppPath], fs[paths[i]])
            IN  IF paths[i] = AppPath THEN {}
                ELSE {found[field][j].name : j \in DOMAIN found[field]}
          : i \in DOMAIN paths }

(***************************************************************************)
(* analyzeDependencies.                                                    *)
(***************************************************************************)

\* A mutant of AddDeclaration: the version entries are keyed by the
\* normalized version, so that "^1.2.0" and "~1.2.0" share one entry
AddDeclarationNormalizedKey(map, dep, version, packageName, type, isMainApp) ==
    LET key == IF getSemverVersion(version) # Null
               THEN getSemverVersion(version) ELSE version
        depInfo0 == IF Has(map, dep) THEN Get(map, dep)
                    ELSE [versions |-> <<>>, usedAsNormal |-> FALSE,
                          usedAsPeer |-> FALSE]
        versionInfo0 == IF Has(depInfo0.versions, key)
                        THEN Get(depInfo0.versions, key)
                        ELSE [packages |-> {}, usages |-> {}]
        versionInfo ==
            [packages |-> versionInfo0.packages \cup {packageName},
             usages |-> versionInfo0.usages \cup {<<type, isMainApp>>}]
        depInfo ==
            [versions |-> Put(depInfo0.versions, key, versionInfo),
             usedAsNormal |-> depInfo0.usedAsNormal \/ type = "normal",
             usedAsPeer |-> depInfo0.usedAsPeer \/ type = "peer"]
    IN  Put(map, dep, depInfo)

\* A mutant of AddDeclaration: the flags are assigned from the type of the
\* declaration at hand instead of being raised
AddDeclarationLastType(map, dep, version, packageName, type, isMainApp) ==
    LET depInfo0 == IF Has(map, dep) THEN Get(map, dep)
                    ELSE [versions |-> <<>>, usedAsNormal |-> FALSE,
                          usedAsPeer |-> FALSE]
        versionInfo0 == IF Has(depInfo0.versions, version)
                        THEN Get(depInfo0.versions, version)
                        ELSE [packages |-> {}, usages |-> {}]
        versionInfo ==
            [packages |-> versionInfo0.packages \cup {packageName},
             usages |-> versionInfo0.usages
                        \cup {<<type, isMainApp>>}
                        \cup (IF isWorkspaceDep(version)
                              THEN {<<"workspace", FALSE>>} ELSE {})]
        depInfo ==
            [versions |-> Put(depInfo0.versions, version, versionInfo),
             usedAsNormal |-> type = "normal",
             usedAsPeer |-> type = "peer"]
    IN  Put(map, dep, depInfo)

\* The body of the innermost forEach: one declaration folded into the map
AddDeclaration(map, dep, version, packageName, type, isMainApp) ==
    LET depInfo0 == IF Has(map, dep) THEN Get(map, dep)
                    ELSE [versions |-> <<>>, usedAsNormal |-> FALSE,
                          usedAsPeer |-> FALSE]
        versionInfo0 == IF Has(depInfo0.versions, version)
                        THEN Get(depInfo0.versions, version)
                        ELSE [packages |-> {}, usages |-> {}]
        versionInfo ==
            [packages |-> versionInfo0.packages \cup {packageName},
             usages |-> versionInfo0.usages
                        \cup {<<type, isMainApp>>}
                        \cup (IF isWorkspaceDep(version)
                              THEN {<<"workspace", FALSE>>} ELSE {})]
        depInfo ==
            [versions |-> Put(depInfo0.versions, version, versionInfo),
             usedAsNormal |-> depInfo0.usedAsNormal \/ type = "normal",
             usedAsPeer |-> depInfo0.usedAsPeer \/ type = "peer"]
    IN  Put(map, dep, depInfo)

\* Object.entries(deps).forEach(...) for one section of one manifest
RECURSIVE AddSection(_, _, _, _, _)
AddSection(map, deps, packageName, type, isMainApp) ==
    IF deps = <<>> THEN map
    ELSE AddSection(AddDeclaration(map, Head(deps).name, Head(deps).value,
                                   packageName, type, isMainApp),
                    Tail(deps), packageName, type, isMainApp)

\* The declarations of deps whose version is no workspace declaration
WithoutWorkspaceDeps(deps) ==
    SelectSeq(deps, LAMBDA e : ~isWorkspaceDep(e.value))

\* A mutant of AddManifest: declarations with a workspace declaration as
\* their version are not recorded
AddManifestIgnoringWorkspace(map, packageJson, isMainApp) ==
    AddSection(
        AddSection(
            AddSection(map, WithoutWorkspaceDeps(packageJson.dependencies),
                       packageJson.name, "normal", isMainApp),
            WithoutWorkspaceDeps(packageJson.peerDependencies),
            packageJson.name, "peer", isMainApp),
        WithoutWorkspaceDeps(packageJson.devDependencies), packageJson.name,
        "dev", isMainApp)

\* One manifest: its normal, peer and dev dependencies, in this order
AddManifest(map, packageJson, isMainApp) ==
    AddSection(
        AddSection(
            AddSection(map, packageJson.dependencies, packageJson.name,
                       "normal", isMainApp),
            packageJson.peerDependencies, packageJson.name, "peer",
            isMainApp),
        packageJson.devDependencies, packageJson.name, "dev", isMainApp)

\* DependencyChecker.analyzeDependencies, after findWorkspacePackages: the
\* manifests of packageJsonFiles folded into this.dependencyMap
RECURSIVE analyzeDependencies(_, _, _)
analyzeDependencies(fs, paths, map) ==
    IF paths = <<>> THEN map
    ELSE analyzeDependencies(fs, Tail(paths),
             AddManifest(map, fs[Head(paths)], Head(paths) = AppPath))

(***************************************************************************)
(* displayVersionDifferences and displayResults.                           *)
(***************************************************************************)

\* Array.from(depInfo.versions.entries()).map(...)
VersionList(depInfo) ==
    [i \in DOMAIN depInfo.versions |->
        [version |-> depInfo.versions[i].name,
         packages |-> depInfo.versions[i].value.packages,
         usages |-> depInfo.versions[i].value.usages]]

\* A mutant of ComparisonsFrom: the inner loop starts at the first version
RECURSIVE ComparisonsFromFirst(_, _, _)
ComparisonsFromFirst(versions, i, j) ==
    IF i > Len(versions) THEN <<>>
    ELSE IF j > Len(versions) THEN ComparisonsFromFirst(versions, i + 1, 1)
    ELSE <<Comparison(versions[i].version, versions[j].version)>>
         \o ComparisonsFromFirst(versions, i, j + 1)

\* The two nested for loops: versions[i] against versions[j], i < j
RECURSIVE ComparisonsFrom(_, _, _)
ComparisonsFrom(versions, i, j) ==
    IF i > Len(versions) THEN <<>>
    ELSE IF j > Len(versions) THEN ComparisonsFrom(versions, i + 1, i + 2)
    ELSE <<Comparison(versions[i].version, versions[j].version)>>
         \o ComparisonsFrom(versions, i, j + 1)

\* A mutant of IsConflict: any recorded version counts
IsConflictAnyVersion(depInfo) == Len(depInfo.versions) > 0

\* A mutant of IsConflict: the version entries must come from more than
\* one package
IsConflictSeveralPackages(depInfo) ==
    /\ Len(depInfo.versions) > 1
    /\ Cardinality(UNION {depInfo.versions[i].value.packages
                          : i \in DOMAIN depInfo.versions}) > 1

\* The test for a conflict: depInfo.versions.size > 1
IsConflict(depInfo) == Len(depInfo.versions) > 1

\* DependencyChecker.displayVersionDifferences: conflictingDeps
RECURSIVE displayVersionDifferences(_)
displayVersionDifferences(map) ==
    IF map = <<>> THEN <<>>
    ELSE (IF IsConflict(Head(map).value)
          THEN <<[name |-> Head(map).name,
                  versions |-> VersionList(Head(map).value),
                  comparisons |->
                      ComparisonsFrom(VersionList(Head(map).value), 1, 2)]>>
          ELSE <<>>)
         \o displayVersionDifferences(Tail(map))

\* DependencyChecker.displayResults("json"): summary.conflicts, which
\* carries no comparisons
RECURSIVE jsonConflicts(_)
jsonConflicts(map) ==
    IF map = <<>> THEN <<>>
    ELSE (IF IsConflict(Head(map).value)
          THEN <<[name |-> Head(map).name,
                  versions |-> VersionList(Head(map).value),
                  comparisons |-> <<>>]>>
          ELSE <<>>)
         \o jsonConflicts(Tail(map))

(***************************************************************************)
(* updateDependencies.                                                     *)
(***************************************************************************)

\* The new version string of one declaration, or Null when none is made:
\* the body of the forEach in updateDependencySection
NewVersion(appDependencies, dep, version) ==
    IF StartsWithWorkspace(version) THEN Null
    ELSE IF ~Truthy(Lookup(appDependencies, dep)) THEN Null
    ELSE LET appVersion == Get(appDependencies, dep)
             cleanCurrentVersion == StripRangePrefix(version)
             cleanAppVersion == StripRangePrefix(appVersion)
             versionPrefix == RangePrefix(version)
         IN  IF cleanCurrentVersion # cleanAppVersion
             THEN versionPrefix \o cleanAppVersion
             ELSE Null

\* updateDependencySection(section): the updates it pushes
RECURSIVE SectionUpdates(_, _, _, _)
SectionUpdates(appDependencies, packageName, section, deps) ==
    IF deps = <<>> THEN <<>>
    ELSE LET dep == Head(deps).name
             version == Head(deps).value
             newVersion == NewVersion(appDependencies, dep, version)
         IN  (IF newVersion # Null
              THEN <<[package |-> packageName, dependency |-> dep,
                      from |-> version, to |-> newVersion,
                      type |-> section]>>
              ELSE <<>>)
             \o SectionUpdates(appDependencies, packageName, section,
                               Tail(deps))

\* updateDependencySection(section): the section as it leaves it
SectionUpdated(appDependencies, deps, dryRun) ==
    [i \in DOMAIN deps |->
        LET newVersion ==
                NewVersion(appDependencies, deps[i].name, deps[i].value)
        IN  IF newVersion # Null /\ ~dryRun
            THEN [name |-> deps[i].name, value |-> newVersion]
            ELSE deps[i]]

\* The three calls of updateDependencySection on one manifest
ManifestUpdates(appDependencies, packageJson) ==
    SectionUpdates(appDependencies, packageJson.name, "dependencies",
                   packageJson.dependencies)
    \o SectionUpdates(appDependencies, packageJson.name, "devDependencies",
                      packageJson.devDependencies)
    \o SectionUpdates(appDependencies, packageJson.name, "peerDependencies",
                      packageJson.peerDependencies)

ManifestUpdated(appDependencies, packageJson, dryRun) ==
    [packageJson EXCEPT
        !.dependencies =
            SectionUpdated(appDependencies, packageJson.dependencies, dryRun),
        !.devDependencies =
            SectionUpdated(appDependencies, packageJson.devDependencies,
                           dryRun),
        !.peerDependencies =
            SectionUpdated(appDependencies, packageJson.peerDependencies,
                           dryRun)]

\* A mutant of WritesManifest: the guard forgets dryRun
WritesManifestAlways(hasUpdates, dryRun) == hasUpdates

\* if (hasUpdates && !dryRun) fs.writeFileSync(...)
WritesManifest(hasUpdates, dryRun) == hasUpdates /\ ~dryRun

\* The forEach over packageJsonFiles without the root; acc is
\* [fs, updates, written, failed].  Nothing catches what writeFileSync
\* throws: the exception leaves the forEach, and the manifests after the
\* one that failed are not visited.
RECURSIVE UpdateManifests(_, _, _, _)
UpdateManifests(appDependencies, paths, dryRun, acc) ==
    IF paths = <<>> THEN acc
    ELSE LET filePath == Head(paths)
             packageJson == acc.fs[filePath]
             found == ManifestUpdates(appDependencies, packageJson)
             writes == WritesManifest(found # <<>>, dryRun)
         IN  UpdateManifests(appDependencies, Tail(paths), dryRun,
                 IF acc.failed \/ filePath = AppPath THEN acc
                 ELSE IF writes /\ ~packageJson.writable
                 THEN [acc EXCEPT !.failed = TRUE]
                 ELSE [fs |-> IF writes
                              THEN writeFileSync(acc.fs, filePath,
                                       ManifestUpdated(appDependencies,
                                                       packageJson, dryRun))
                              ELSE acc.fs,
                       updates |-> acc.updates \o found,
                       written |-> IF writes
                                   THEN Append(acc.written, filePath)
                                   ELSE acc.written,
                       failed |-> FALSE])

\* const appDependencies =
\*     { ...dependencies, ...devDependencies, ...peerDependencies }
AppDependencies(appPackageJson) ==
    Spread(Spread(appPackageJson.dependencies,
                  appPackageJson.devDependencies),
           appPackageJson.peerDependencies)

\* DependencyChecker.updateDependencies
updateDependencies(fs, paths, dryRun) ==
    UpdateManifests(AppDependencies(fs[AppPath]), paths, dryRun,
                    [fs |-> fs, updates |-> <<>>, written |-> <<>>,
                     failed |-> FALSE])

(***************************************************************************)
(* run(options).                                                           *)
(***************************************************************************)

\* The number of run() calls on one instance that the model follows
MaxRuns == 2

NoRun == [mode |-> "none", dryRun |-> FALSE, format |-> "text"]

Options(mode, dryRun, format) ==
    [mode |-> mode, dryRun |-> dryRun, format |-> format]

\* What every run() does first: it counts as a run and sees the files
Begin(options) ==
    /\ runs < MaxRuns
    /\ runs' = runs + 1
    /\ lastRun' = options
    /\ filesBefore' = files
    /\ packageJsonFiles' = findPackageJsonFiles(files, packagesInput)
    /\ workspacePackages' =
           IF FindThrows(files, packagesInput) THEN workspacePackages
           ELSE findWorkspacePackages(files, packagesInput,
                                      workspacePackages)
    /\ UNCHANGED <<packagesInput, compareVars>>

\* An exception leaves run() before any result: the promise rejects
Throws == FindThrows(files, packagesInput) \/ ReadThrows(files, packagesInput)

Rejects ==
    /\ outcome' = "rejected"
    /\ updates' = <<>>
    /\ conflictingDeps' = <<>>
    /\ missingDeps' = <<>>
    /\ uniqueMissingDeps' = {}
    /\ uniqueExtraDeps' = {}
    /\ written' = <<>>
    /\ UNCHANGED <<files, dependencyMap>>

\* run({ checkMissing: true })
RunCheckMissing ==
    /\ Begin(Options("checkMissing", FALSE, "text"))
    /\ IF Throws THEN Rejects
       ELSE /\ outcome' = "resolved"
            /\ missingDeps' = MissingDepsOf(files, workspacePackages',
                                            packageJsonFiles', <<>>)
            /\ uniqueMissingDeps' = NamesPushed(files, workspacePackages',
                                                packageJsonFiles', "missing")
            /\ uniqueExtraDeps' = NamesPushed(files, workspacePackages',
                                              packageJsonFiles', "extraDeps")
            /\ updates' = <<>>
            /\ conflictingDeps' = <<>>
            /\ written' = <<>>
            /\ UNCHANGED <<files, dependencyMap>>

\* run({ checkVersions: true })
RunCheckVersions ==
    /\ Begin(Options("checkVersions", FALSE, "text"))
    /\ IF Throws THEN Rejects
       ELSE /\ outcome' = "resolved"
            /\ dependencyMap' = analyzeDependencies(files, packageJsonFiles',
                                                    dependencyMap)
            /\ conflictingDeps' = displayVersionDifferences(dependencyMap')
            /\ updates' = <<>>
            /\ missingDeps' = <<>>
            /\ uniqueMissingDeps' = {}
            /\ uniqueExtraDeps' = {}
            /\ written' = <<>>
            /\ UNCHANGED files

\* run({ update: true, dryRun })
RunUpdate(dryRun) ==
    /\ Begin(Options("update", dryRun, "text"))
    /\ IF Throws THEN Rejects
       ELSE /\ dependencyMap' = analyzeDependencies(files, packageJsonFiles',
                                                    dependencyMap)
            /\ LET done == updateDependencies(files, packageJsonFiles',
                                              dryRun)
               IN  /\ files' = done.fs
                   /\ written' = done.written
                   /\ updates' = IF done.failed THEN <<>> ELSE done.updates
                   /\ outcome' = IF done.failed THEN "rejected"
                                 ELSE "resolved"
            /\ conflictingDeps' = <<>>
            /\ missingDeps' = <<>>
            /\ uniqueMissingDeps' = {}
            /\ uniqueExtraDeps' = {}

RunUpdateDry == RunUpdate(TRUE)

RunUpdateApply == RunUpdate(FALSE)

\* run({ format }) with no mode: the full analysis
RunDefault(format) ==
    /\ Begin(Options("default", FALSE, format))
    /\ IF Throws THEN Rejects
       ELSE /\ outcome' = "resolved"
            /\ dependencyMap' = analyzeDependencies(files, packageJsonFiles',
                                                    dependencyMap)
            /\ conflictingDeps' = IF format = "json"
                                  THEN jsonConflicts(dependencyMap')
                                  ELSE displayVersionDifferences(
                                           dependencyMap')
            /\ updates' = <<>>
            /\ missingDeps' = <<>>
            /\ uniqueMissingDeps' = {}
            /\ uniqueExtraDeps' = {}
            /\ written' = <<>>
            /\ UNCHANGED files

RunDefaultText == RunDefault("text")

RunDefaultJson == RunDefault("json")

(***************************************************************************)
(* The manifests the model starts from.                                    *)
(***************************************************************************)

Sections == {"dependencies", "devDependencies", "peerDependencies"}

\* The key order of a section that declares several dependencies
DepOrder == <<"axios", "lodash", "pkg1", "pkg2">>

\* Every way to declare at most k of the slots (a section and a name),
\* each with one of the versions
Declarations(slots, versions, k) ==
    UNION {[chosen -> versions] :
              chosen \in {c \in SUBSET slots : Cardinality(c) <= k}}

SectionOf(decls, section) ==
    LET present == SelectSeq(DepOrder,
                       LAMBDA d : <<section, d>> \in DOMAIN decls)
    IN  [i \in DOMAIN present |->
            [name |-> present[i], value |-> decls[<<section, present[i]>>]]]

Manifest(name, decls) ==
    PackageJson(name, SectionOf(decls, "dependencies"),
                SectionOf(decls, "devDependencies"),
                SectionOf(decls, "peerDependencies"))

\* The checker as its constructor leaves it, on the given files
Constructed(fs, input) ==
    /\ files = fs
    /\ packagesInput = input
    /\ packageJsonFiles = <<>>
    /\ dependencyMap = <<>>
    /\ workspacePackages = {}
    /\ lastRun = NoRun
    /\ outcome = "none"
    /\ runs = 0
    /\ filesBefore = fs
    /\ written = <<>>
    /\ updates = <<>>
    /\ conflictingDeps = <<>>
    /\ missingDeps = <<>>
    /\ uniqueMissingDeps = {}
    /\ uniqueExtraDeps = {}

NoComparison == [version1 |-> <<>>, version2 |-> <<>>, semverDiff |-> "",
                 label |-> "", action |-> "", severity |-> ""]

NotComparing ==
    /\ version1 = <<>>
    /\ version2 = <<>>
    /\ comparison = NoComparison

(***************************************************************************)
(* SpecCompare: compareDependencyVersions and the display of one           *)
(* comparison, on every pair of the version strings below.                 *)
(***************************************************************************)

CompareVersions ==
    { <<Op("^"), Num(1, 2, 0)>>,                      \* "^1.2.0"
      <<Op("~"), Num(1, 0, 0)>>,                      \* "~1.0.0"
      <<Num(1, 2, 0)>>,                               \* "1.2.0"
      <<Op("^"), Num(2, 0, 0)>>,                      \* "^2.0.0"
      <<Op("^"), Num(1, 2, 3)>>,                      \* "^1.2.3"
      <<Op(">"), Op("="), Sp, Num(1, 0, 0)>>,         \* ">= 1.0.0"
      <<Op(">"), Op("="), Num(1, 0, 0), Sp, Op("<"), Num(2, 0, 0)>>,
                                                      \* ">=1.0.0 <2.0.0"
      <<Sp, Num(1, 2, 0)>>,                           \* " 1.2.0"
      <<Word("latest")>>,                             \* "latest"
      <<Star>>,                                       \* "*"
      <<WorkspaceProtocol, Star>>,                    \* "workspace:*"
      <<WorkspaceProtocol, Num(1, 0, 0)>>,            \* "workspace:1.0.0"
      <<WorkspaceProtocol, Op("^"), Num(1, 0, 0)>>,   \* "workspace:^1.0.0"
      <<NumPre(1, 0, 0, 1)>>,                         \* "1.0.0-1"
      <<Op("^"), NumPre(2, 0, 0, 1)>>,                \* "^2.0.0-1"
      <<>> }                                          \* ""

OnlyRoot == [path \in {AppPath} |-> PackageJson("app", <<>>, <<>>, <<>>)]

InitCompare ==
    /\ version1 \in CompareVersions
    /\ version2 \in CompareVersions
    /\ comparison = NoComparison
    /\ Constructed(OnlyRoot, <<>>)

\* The comparison of version1 with version2, as the report makes it
Compare ==
    /\ comparison = NoComparison
    /\ comparison' = Comparison(version1, version2)
    /\ UNCHANGED <<version1, version2, checkerVars>>

NextCompare == Compare

SpecCompare == InitCompare /\ [][NextCompare]_vars

Compared == comparison # NoComparison

Numeric == {"major", "minor", "patch"}

\* C5: two version strings that are no workspace declarations and that
\* both normalize are classified by the coarsest of major, minor and patch
\* in which their versions differ.
C5_CoarsestField ==
    (/\ Compared
     /\ ~isWorkspaceDep(version1) /\ ~isWorkspaceDep(version2)
     /\ getSemverVersion(version1) # Null
     /\ getSemverVersion(version2) # Null)
    => LET a == semverParse(getSemverVersion(version1)).n
           b == semverParse(getSemverVersion(version2)).n
       IN  /\ a[1] # b[1] => comparison.semverDiff = "major"
           /\ a[1] = b[1] /\ a[2] # b[2] => comparison.semverDiff = "minor"
           /\ a[1] = b[1] /\ a[2] = b[2] /\ a[3] # b[3]
                  => comparison.semverDiff = "patch"

\* C6: for two version strings that both normalize, the comparison of
\* (version1, version2) and that of (version2, version1) give the same
\* category, in semverDiff and in everything displayed.
C6_Symmetric ==
    (/\ Compared
     /\ getSemverVersion(version1) # Null
     /\ getSemverVersion(version2) # Null)
    => LET swapped == Comparison(version2, version1)
       IN  /\ swapped.semverDiff = comparison.semverDiff
           /\ swapped.label = comparison.label
           /\ swapped.action = comparison.action
           /\ swapped.severity = comparison.severity

\* C6 witness: "^2.0.0" against "~1.0.0", the higher version first, has
\* been compared and found to differ in major.
C6_Witness ==
    /\ Compared
    /\ version1 = <<Op("^"), Num(2, 0, 0)>>
    /\ version2 = <<Op("~"), Num(1, 0, 0)>>
    /\ comparison.semverDiff = "major"

\* C7: when neither version string is a workspace declaration and one of
\* them does not normalize, the category is unknown, in semverDiff and in
\* everything displayed, and never major, minor or patch.
C7_UnknownWhenNotNormalized ==
    (/\ Compared
     /\ ~isWorkspaceDep(version1) /\ ~isWorkspaceDep(version2)
     /\ \/ getSemverVersion(version1) = Null
        \/ getSemverVersion(version2) = Null)
    => /\ comparison.semverDiff = "unknown"
       /\ comparison.label = "unknown"
       /\ comparison.action = "not available"
       /\ comparison.severity = "unknown"

\* C7 witness: "latest" has been compared with "^2.0.0".
C7_Witness ==
    /\ Compared
    /\ version1 = <<Word("latest")>>
    /\ version2 = <<Op("^"), Num(2, 0, 0)>>
    /\ comparison.semverDiff = "unknown"

\* C8: a comparison in which one version string is a workspace declaration
\* (it starts with "workspace:" or is "*") is classified workspace, and no
\* numeric category is computed or shown for it.
C8_WorkspaceClassified ==
    (Compared /\ (isWorkspaceDep(version1) \/ isWorkspaceDep(version2)))
    => /\ comparison.action = "workspace"
       /\ comparison.severity = "workspace"
       /\ comparison.semverDiff \notin Numeric
       /\ comparison.label \notin Numeric

(***************************************************************************)
(* SpecUpdate: run({ update: true, dryRun }) on a root and two packages    *)
(* that declare axios.                                                     *)
(***************************************************************************)

\* What the root declares axios as
RootVersions ==
    { <<Op("^"), Num(1, 2, 0)>>,                      \* "^1.2.0"
      <<Num(1, 0, 0)>>,                               \* "1.0.0"
      <<Sp, Num(1, 2, 0)>>,                           \* " 1.2.0"
      <<Word("latest")>>,                             \* "latest"
      <<WorkspaceProtocol, Star>>,                    \* "workspace:*"
      <<>> }                                          \* ""

\* What pkg1 declares axios as
PackageVersions ==
    { <<Op("~"), Num(1, 0, 0)>>,                      \* "~1.0.0"
      <<Op("^"), Num(1, 2, 0)>>,                      \* "^1.2.0"
      <<Op("^"), Num(2, 0, 0)>>,                      \* "^2.0.0"
      <<Op(">"), Op("="), Sp, Num(1, 0, 0)>>,         \* ">= 1.0.0"
      <<Star>>,                                       \* "*"
      <<WorkspaceProtocol, Star>> }                   \* "workspace:*"

\* What the root declares axios as when it declares it in two sections
RootVersionsTwice ==
    { <<Op("^"), Num(1, 2, 0)>>,                      \* "^1.2.0"
      <<Num(1, 0, 0)>> }                              \* "1.0.0"

AxiosSlots == Sections \X {"axios"}

\* pkg2 declares axios "1.0.0" as a dependency and a dev dependency
Pkg2Fixed ==
    PackageJson("pkg2",
                <<[name |-> "axios", value |-> <<Num(1, 0, 0)>>]>>,
                <<[name |-> "axios", value |-> <<Num(1, 0, 0)>>]>>,
                <<>>)

\* --packages: the directory, or the directory and then pkg1's manifest
UpdateInputs == {<<PackagesDir>>, <<PackagesDir, Pkg1Path>>}

InitUpdate ==
    /\ NotComparing
    /\ \E root \in Declarations(AxiosSlots, RootVersions, 1)
                     \cup Declarations(AxiosSlots, RootVersionsTwice, 2),
          pkg1 \in Declarations(AxiosSlots, PackageVersions, 2),
          input \in UpdateInputs :
          Constructed((AppPath :> Manifest("app", root))
                      @@ (Pkg1Path :> Manifest("pkg1", pkg1))
                      @@ (Pkg2Path :> Pkg2Fixed),
                      input)

NextUpdate == RunUpdateDry \/ RunUpdateApply

SpecUpdate == InitUpdate /\ [][NextUpdate]_vars

\* The last run() was an update, dry or applied
DryRan == lastRun.mode = "update" /\ lastRun.dryRun
Applied == lastRun.mode = "update" /\ ~lastRun.dryRun

\* The edits planned for the manifest at path as it is in fs, as a set
PlannedEdits(fs, path) ==
    UNION { { [package |-> fs[path].name,
               dependency |-> fs[path][section][i].name,
               from |-> fs[path][section][i].value,
               to |-> NewVersion(AppDependencies(fs[AppPath]),
                                 fs[path][section][i].name,
                                 fs[path][section][i].value),
               type |-> section]
              : i \in { j \in DOMAIN fs[path][section] :
                          NewVersion(AppDependencies(fs[AppPath]),
                                     fs[path][section][j].name,
                                     fs[path][section][j].value) # Null } }
            : section \in Sections }

\* C1: a run with dryRun leaves every manifest, the root's and the
\* packages', exactly as it found it, and writes nothing, while it reports
\* the edits planned for every package manifest.
C1_DryRunInvariance ==
    DryRan =>
        /\ files = filesBefore
        /\ written = <<>>
        /\ \A i \in DOMAIN packageJsonFiles :
               packageJsonFiles[i] # AppPath =>
                   PlannedEdits(filesBefore, packageJsonFiles[i])
                       \subseteq {updates[j] : j \in DOMAIN updates}

\* C1 witness: a dry run has reported an edit.
C1_Witness == DryRan /\ updates # <<>> /\ files = filesBefore

\* C2: after an applied update, planning the update again on the
\* manifests as they now are yields no edit.
C2_FixedPoint ==
    Applied =>
        updateDependencies(files, packageJsonFiles, TRUE).updates = <<>>

\* C3: every edit's new version is the package's own range prefix
\* followed by the root's normalized version.
C3_SyncToRoot ==
    lastRun.mode = "update" =>
        \A i \in DOMAIN updates :
            LET rootVersion ==
                    Get(AppDependencies(filesBefore[AppPath]),
                        updates[i].dependency)
            IN  /\ getSemverVersion(rootVersion) # Null
                /\ updates[i].to =
                       RangePrefix(updates[i].from)
                       \o getSemverVersion(rootVersion)

(***************************************************************************)
(* SpecVersions: the version report, run({ checkVersions: true }) and      *)
(* run({ format }), on a root and two packages.                            *)
(***************************************************************************)

\* What the manifests declare axios and lodash as
ReportVersions ==
    { <<Op("^"), Num(1, 2, 0)>>,                      \* "^1.2.0"
      <<Op("~"), Num(1, 2, 0)>>,                      \* "~1.2.0"
      <<WorkspaceProtocol, Star>> }                   \* "workspace:*"

ReportRootSlots ==
    {<<"dependencies", "axios">>, <<"devDependencies", "axios">>}

ReportPackageSlots == AxiosSlots \cup {<<"dependencies", "lodash">>}

ReportPkg2Slots == {<<"dependencies", "axios">>}

ReportPkg2Versions ==
    { <<Op("^"), Num(1, 2, 0)>>,                      \* "^1.2.0"
      <<Op("~"), Num(1, 2, 0)>> }                     \* "~1.2.0"

InitVersions ==
    /\ NotComparing
    /\ \E root \in Declarations(ReportRootSlots, ReportVersions, 2),
          pkg1 \in Declarations(ReportPackageSlots, ReportVersions, 2),
          pkg2 \in Declarations(ReportPkg2Slots, ReportPkg2Versions, 1) :
          Constructed((AppPath :> Manifest("app", root))
                      @@ (Pkg1Path :> Manifest("pkg1", pkg1))
                      @@ (Pkg2Path :> Manifest("pkg2", pkg2)),
                      <<PackagesDir>>)

NextVersions == RunCheckVersions \/ RunDefaultText \/ RunDefaultJson

SpecVersions == InitVersions /\ [][NextVersions]_vars

\* The last run() reported version conflicts
Reported_ == lastRun.mode \in {"checkVersions", "default"}

\* The raw version strings the manifests of paths declare dep with
DeclaredVersions(fs, paths, dep) ==
    { fs[paths[i]][section][j].value
      : <<i, section, j>> \in
            { <<i0, s0, j0>> \in (DOMAIN paths) \X Sections \X (1..Len(DepOrder)) :
                /\ j0 \in DOMAIN fs[paths[i0]][s0]
                /\ fs[paths[i0]][s0][j0].name = dep } }

\* The names of the dependencies the last report listed as conflicts
ConflictNames == {conflictingDeps[i].name : i \in DOMAIN conflictingDeps}

\* C4: a dependency is reported as a conflict exactly when its record
\* holds more than one distinct raw version string, which is exactly when
\* the analysed manifests declare it with more than one; a dependency
\* with one version string across the manifests is not reported.
C4_ConflictIffSeveralVersions ==
    Reported_ =>
        /\ ConflictNames =
               { dependencyMap[i].name
                 : i \in { j \in DOMAIN dependencyMap :
                             Cardinality(Keys(dependencyMap[j].value.versions))
                                 > 1 } }
        /\ \A dep \in Keys(dependencyMap) \cup ConflictNames :
               dep \in ConflictNames
               <=> Cardinality(DeclaredVersions(files, packageJsonFiles,
                                                dep)) > 1

\* C4 witness: a report listed one dependency as a conflict and left out
\* another that the manifests declare with a single version string.
C4_Witness ==
    /\ Reported_
    /\ "axios" \in ConflictNames
    /\ "lodash" \in Keys(dependencyMap) \ ConflictNames

(***************************************************************************)
(* SpecMissing: run({ checkMissing: true }) on a root and two packages     *)
(* that declare lodash and pkg2.                                           *)
(***************************************************************************)

\* What the root declares lodash as
MissingRootVersions ==
    { <<Op("^"), Num(4, 17, 21)>>,                    \* "^4.17.21"
      <<WorkspaceProtocol, Star>>,                    \* "workspace:*"
      <<>> }                                          \* ""

\* What pkg1 declares lodash and pkg2 as
MissingPackageVersions ==
    { <<Op("^"), Num(4, 17, 21)>>,                    \* "^4.17.21"
      <<Op("~"), Num(4, 17, 0)>>,                     \* "~4.17.0"
      <<WorkspaceProtocol, Star>>,                    \* "workspace:*"
      <<>> }                                          \* ""

LodashSlots == Sections \X {"lodash"}

MissingPackageSlots ==
    LodashSlots \cup {<<"dependencies", "pkg2">>, <<"peerDependencies", "pkg2">>}

MissingPkg2Slots == {<<"dependencies", "lodash">>}

MissingPkg2Versions == { <<Op("^"), Num(4, 17, 21)>> }   \* "^4.17.21"

\* packages/ as a whole, or pkg1's manifest alone
MissingInputs == {<<PackagesDir>>, <<Pkg1Path>>}

InitMissing ==
    /\ NotComparing
    /\ \E root \in Declarations(LodashSlots, MissingRootVersions, 2),
          pkg1 \in Declarations(MissingPackageSlots, MissingPackageVersions, 2),
          pkg2 \in Declarations(MissingPkg2Slots, MissingPkg2Versions, 1),
          input \in MissingInputs :
          Constructed((AppPath :> Manifest("app", root))
                      @@ (Pkg1Path :> Manifest("pkg1", pkg1))
                      @@ (Pkg2Path :> Manifest("pkg2", pkg2)),
                      input)

NextMissing == RunCheckMissing

SpecMissing == InitMissing /\ [][NextMissing]_vars

\* The last run() was run({ checkMissing: true })
CheckedMissing == lastRun.mode = "checkMissing"

\* The manifests of the packages the last run analysed
AnalysedPackages ==
    { files[packageJsonFiles[i]]
      : i \in { j \in DOMAIN packageJsonFiles :
                  packageJsonFiles[j] # AppPath } }

\* The result for the package named name lists { name: dep, version } in
\* field (missing or extraDeps)
Lists(name, field, dep, version) ==
    /\ Has(missingDeps, name)
    /\ \E i \in DOMAIN Get(missingDeps, name)[field] :
           Get(missingDeps, name)[field][i] =
               [name |-> dep, version |-> version]

\* The result for the package named name lists dep in field
ListsName(name, field, dep) ==
    /\ Has(missingDeps, name)
    /\ \E i \in DOMAIN Get(missingDeps, name)[field] :
           Get(missingDeps, name)[field][i].name = dep

\* The root declares dep in none of its three sections
RootLacks(dep) == \A section \in Sections : ~Has(files[AppPath][section], dep)

\* The version string the root's sections give dep, a later section
\* overriding an earlier one; Null when none declares it
RootVersion(dep) ==
    LET root == files[AppPath]
    IN  IF Has(root.peerDependencies, dep)
        THEN Get(root.peerDependencies, dep)
        ELSE IF Has(root.devDependencies, dep)
        THEN Get(root.devDependencies, dep)
        ELSE Lookup(root.dependencies, dep)

\* The version string packageJson's dependencies and peerDependencies give
\* dep, peerDependencies overriding; Null when neither declares it
PackageVersion(packageJson, dep) ==
    IF Has(packageJson.peerDependencies, dep)
    THEN Get(packageJson.peerDependencies, dep)
    ELSE Lookup(packageJson.dependencies, dep)

\* The root declares dep in devDependencies and in no other section
RootDevOnly(dep) ==
    /\ Has(files[AppPath].devDependencies, dep)
    /\ ~Has(files[AppPath].dependencies, dep)
    /\ ~Has(files[AppPath].peerDependencies, dep)

\* C9 as stated: every (d, v) that a package P declares in dependencies or
\* peerDependencies, with d passing shouldInclude against P's manifest
\* and the root declaring d in no section, is listed as missing for P with
\* the raw version v.
C9_MissingFromRoot ==
    CheckedMissing =>
        \A P \in AnalysedPackages :
            \A section \in {"dependencies", "peerDependencies"} :
                \A i \in DOMAIN P[section] :
                    (/\ shouldIncludeDependency(workspacePackages,
                            P[section][i].name, P[section][i].value, P)
                     /\ RootLacks(P[section][i].name))
                    => Lists(P.name, "missing", P[section][i].name,
                             P[section][i].value)

\* C9 as amended: for a dependency d that a package P declares in
\* dependencies or peerDependencies, the root declaring d in no section,
\* d is listed as missing for P with the raw version string of P's
\* peerDependencies when P declares d there and of P's dependencies
\* otherwise, whenever d with that version passes shouldInclude against
\* P's manifest.
C9_MissingFromRootMerged ==
    CheckedMissing =>
        \A P \in AnalysedPackages :
            \A dep \in Keys(P.dependencies) \cup Keys(P.peerDependencies) :
                (/\ shouldIncludeDependency(workspacePackages, dep,
                        PackageVersion(P, dep), P)
                 /\ RootLacks(dep))
                => Lists(P.name, "missing", dep, PackageVersion(P, dep))

\* C9 witness: pkg1 declares lodash "~4.17.0" in dependencies and
\* "^4.17.21" in peerDependencies, the root does not declare it, and the
\* result lists lodash@"^4.17.21" as missing for pkg1.
C9_Witness ==
    /\ CheckedMissing
    /\ RootLacks("lodash")
    /\ Lookup(files[Pkg1Path].dependencies, "lodash")
           = <<Op("~"), Num(4, 17, 0)>>
    /\ Lookup(files[Pkg1Path].peerDependencies, "lodash")
           = <<Op("^"), Num(4, 17, 21)>>
    /\ Lists("pkg1", "missing", "lodash", <<Op("^"), Num(4, 17, 21)>>)

\* C10 as stated: a dependency the root declares in devDependencies only
\* counts as not declared by the root, so that a package declaring it in
\* dependencies or peerDependencies (and passing shouldInclude) gets it
\* listed as missing, and it is listed as extra for no package.
C10_RootDevExcluded ==
    CheckedMissing =>
        \A P \in AnalysedPackages :
            \A dep \in Keys(files[AppPath].devDependencies) :
                RootDevOnly(dep) =>
                    /\ (/\ PackageVersion(P, dep) # Null
                        /\ shouldIncludeDependency(workspacePackages, dep,
                               PackageVersion(P, dep), P))
                       => ListsName(P.name, "missing", dep)
                    /\ ~ListsName(P.name, "extraDeps", dep)

\* C10 as amended: the root's comparison set is the union of its
\* dependencies, devDependencies and peerDependencies, a later section
\* overriding an earlier one and an empty version string counting as no
\* declaration. A dependency in that set, also one the root declares in
\* devDependencies only, is listed as missing for no package, and is
\* listed as extra, with the root's version string, for every analysed
\* package whose dependencies and peerDependencies do not give it a
\* non-empty version, when it passes shouldInclude against the root.
C10_RootDevIncluded ==
    CheckedMissing =>
        \A P \in AnalysedPackages :
            \A dep \in UNION {Keys(files[AppPath][section])
                              : section \in Sections} :
                Truthy(RootVersion(dep)) =>
                    /\ ~ListsName(P.name, "missing", dep)
                    /\ (/\ ~Truthy(PackageVersion(P, dep))
                        /\ shouldIncludeDependency(workspacePackages, dep,
                               RootVersion(dep), files[AppPath]))
                       => Lists(P.name, "extraDeps", dep, RootVersion(dep))

\* C10 witness: the root declares lodash "^4.17.21" in devDependencies
\* only, pkg1 declares lodash in dependencies and is not told it is
\* missing, pkg2 does not declare it and is told it is extra in the root.
C10_Witness ==
    /\ CheckedMissing
    /\ RootDevOnly("lodash")
    /\ RootVersion("lodash") = <<Op("^"), Num(4, 17, 21)>>
    /\ Lookup(files[Pkg1Path].dependencies, "lodash")
           = <<Op("~"), Num(4, 17, 0)>>
    /\ files[Pkg1Path] \in AnalysedPackages
    /\ files[Pkg2Path] \in AnalysedPackages
    /\ ~ListsName("pkg1", "missing", "lodash")
    /\ Lists("pkg2", "extraDeps", "lodash", <<Op("^"), Num(4, 17, 21)>>)

\* C11: a dependency that an analysed package declares in
\* peerDependencies and that the root declares in no section is listed as
\* missing for that package, whether or not it passes shouldInclude.
C11_PeerAlwaysMissing ==
    CheckedMissing =>
        \A P \in AnalysedPackages :
            \A dep \in Keys(P.peerDependencies) :
                RootLacks(dep) => ListsName(P.name, "missing", dep)

\* The root lists dep as extra for some analysed package
ListedExtra(dep) ==
    \E P \in AnalysedPackages : ListsName(P.name, "extraDeps", dep)

\* C12: a dependency is reported as extra, for a package and in the
\* de-duplicated summary set, exactly when the root declares it, it passes
\* shouldInclude against the root manifest, and no analysed package
\* declares it in dependencies or peerDependencies.
C12_ExtraIffNoSibling ==
    CheckedMissing =>
        \A dep \in UNION {Keys(files[AppPath][section])
                          : section \in Sections} :
            LET extra ==
                    /\ RootVersion(dep) # Null
                    /\ shouldIncludeDependency(workspacePackages, dep,
                           RootVersion(dep), files[AppPath])
                    /\ \A P \in AnalysedPackages :
                           /\ ~Has(P.dependencies, dep)
                           /\ ~Has(P.peerDependencies, dep)
            IN  /\ ListedExtra(dep) <=> extra
                /\ dep \in uniqueExtraDeps <=> extra

\* The version string the three sections of packageJson give dep, a later
\* section overriding an earlier one; Null when none declares it
MergedVersion(packageJson, dep) ==
    IF Has(packageJson.peerDependencies, dep)
    THEN Get(packageJson.peerDependencies, dep)
    ELSE IF Has(packageJson.devDependencies, dep)
    THEN Get(packageJson.devDependencies, dep)
    ELSE Lookup(packageJson.dependencies, dep)

\* version starts with "workspace:" or is "*"
WorkspaceDeclaration(version) ==
    \/ version = <<Star>>
    \/ \E i \in DOMAIN version : i = 1 /\ version[i] = WorkspaceProtocol

\* Some section of packageJson declares dep with a workspace declaration
DeclaresAsWorkspace(packageJson, dep) ==
    \E section \in Sections :
        /\ Has(packageJson[section], dep)
        /\ WorkspaceDeclaration(Get(packageJson[section], dep))

\* The names that the manifests of the model declare
DepNames ==
    UNION {Keys(files[path][section])
           : <<path, section>> \in (DOMAIN files) \X Sections}

IncludeVersions ==
    MissingPackageVersions \cup MissingRootVersions \cup {<<Star>>}

\* C15: shouldInclude(depName, version, manifest) is false exactly when
\* version starts with "workspace:" or is "*", or depName is a discovered
\* workspace package, or the merge of the manifest's three sections
\* gives depName a workspace declaration.
C15_ShouldIncludeExactly ==
    CheckedMissing =>
        \A path \in DOMAIN files :
            \A dep \in DepNames \cup {"axios"} :
                \A version \in IncludeVersions :
                    shouldIncludeDependency(workspacePackages, dep, version,
                                            files[path])
                    <=> ~(\/ WorkspaceDeclaration(version)
                          \/ dep \in workspacePackages
                          \/ WorkspaceDeclaration(
                                 MergedVersion(files[path], dep)))

\* C15 witness: pkg1 declares lodash "^4.17.21" in dependencies and
\* "workspace:*" in devDependencies, the root does not declare lodash,
\* and lodash is not listed as missing for pkg1.
C15_Witness ==
    /\ CheckedMissing
    /\ RootLacks("lodash")
    /\ Lookup(files[Pkg1Path].dependencies, "lodash")
           = <<Op("^"), Num(4, 17, 21)>>
    /\ Lookup(files[Pkg1Path].devDependencies, "lodash")
           = <<WorkspaceProtocol, Star>>
    /\ ~Has(files[Pkg1Path].peerDependencies, "lodash")
    /\ ~ListsName("pkg1", "missing", "lodash")

(***************************************************************************)
(* SpecWorkspace: the version report on a root and a package that declare  *)
(* pkg2, which is a workspace package when packages/ is the input.         *)
(***************************************************************************)

\* What the manifests declare pkg2 as
WorkspaceVersions ==
    { <<WorkspaceProtocol, Star>>,                    \* "workspace:*"
      <<WorkspaceProtocol, Op("^"), Num(1, 0, 0)>>,   \* "workspace:^1.0.0"
      <<Op("^"), Num(1, 2, 0)>> }                     \* "^1.2.0"

WorkspaceRootSlots == {<<"dependencies", "pkg2">>}

WorkspacePackageSlots == Sections \X {"pkg2"}

InitWorkspace ==
    /\ NotComparing
    /\ \E root \in Declarations(WorkspaceRootSlots, WorkspaceVersions, 1),
          pkg1 \in Declarations(WorkspacePackageSlots, WorkspaceVersions, 2),
          input \in MissingInputs :
          Constructed((AppPath :> Manifest("app", root))
                      @@ (Pkg1Path :> Manifest("pkg1", pkg1))
                      @@ (Pkg2Path :> PackageJson("pkg2", <<>>, <<>>, <<>>)),
                      input)

NextWorkspace == RunCheckVersions \/ RunDefaultText \/ RunDefaultJson

SpecWorkspace == InitWorkspace /\ [][NextWorkspace]_vars

\* C13 as stated: no conflict entry, and so no comparison, is produced
\* for a dependency whose name is a discovered workspace package.
C13_WorkspacePackageExcluded ==
    Reported_ =>
        \A i \in DOMAIN conflictingDeps :
            conflictingDeps[i].name \notin workspacePackages

\* C13 as amended: a dependency whose name is a discovered workspace
\* package is analysed like any other: a conflict entry is produced for
\* it exactly when the analysed manifests declare it with more than one
\* distinct raw version string, and in the text report the entry holds
\* one comparison for every pair of these version strings.
C13_WorkspacePackageCompared ==
    Reported_ =>
        \A dep \in workspacePackages :
            LET declared == DeclaredVersions(files, packageJsonFiles, dep)
            IN  /\ dep \in ConflictNames <=> Cardinality(declared) > 1
                /\ \A i \in DOMAIN conflictingDeps :
                       (/\ conflictingDeps[i].name = dep
                        /\ lastRun.format = "text")
                       => 2 * Len(conflictingDeps[i].comparisons)
                              = Cardinality(declared)
                                    * (Cardinality(declared) - 1)

\* C13 witness: pkg2 is a discovered workspace package, the root declares
\* it "^1.2.0" and pkg1 "workspace:*", and the report lists it as a
\* conflict.
C13_Witness ==
    /\ Reported_
    /\ "pkg2" \in workspacePackages
    /\ Lookup(files[AppPath].dependencies, "pkg2") = <<Op("^"), Num(1, 2, 0)>>
    /\ Lookup(files[Pkg1Path].dependencies, "pkg2")
           = <<WorkspaceProtocol, Star>>
    /\ "pkg2" \in ConflictNames

(***************************************************************************)
(* The Version Normalizer, on the version strings of SpecCompare.          *)
(***************************************************************************)

\* s is a semantic version: one version number, with nothing but
\* whitespace around it
IsSemanticVersion(s) ==
    \E i \in DOMAIN s :
        /\ s[i].k = "num"
        /\ \A j \in DOMAIN s : j # i => s[j].k = "sp"

\* How many of the leading characters of s are range operators
LeadingOperators(s) ==
    CHOOSE n \in 0..Len(s) :
        /\ \A j \in 1..n : s[j].k = "op"
        /\ n < Len(s) => s[n + 1].k # "op"

\* How many whitespace characters follow the first n characters of s
SpacesAfter(s, n) ==
    CHOOSE m \in 0..(Len(s) - n) :
        /\ \A j \in 1..m : s[n + j].k = "sp"
        /\ n + m < Len(s) => s[n + m + 1].k # "sp"

\* s without one leading run of range operators and the whitespace after it
AfterOperators(s) ==
    IF LeadingOperators(s) = 0 THEN s
    ELSE SubSeq(s, LeadingOperators(s) + SpacesAfter(s, LeadingOperators(s)) + 1,
                Len(s))

\* What normalize returns for version according to C16
Normalized(version) ==
    IF version # <<>> /\ Head(version) = WorkspaceProtocol
    THEN IF Tail(version) = <<Star>> \/ ~IsSemanticVersion(Tail(version))
         THEN Null ELSE Tail(version)
    ELSE IF version \in {<<Star>>, <<Word("latest")>>} THEN Null
    ELSE IF IsSemanticVersion(AfterOperators(version))
    THEN AfterOperators(version) ELSE Null

\* C16: normalize returns, for every version string, None or a semantic
\* version: None for "workspace:*" and for a "workspace:" remainder that
\* is no semantic version, else the remainder; None for "*" and "latest";
\* otherwise the string without one leading run of range operators and
\* the whitespace after it when that is a semantic version, else None.
C16_NormalizeTotal ==
    Compared =>
        \A version \in {version1, version2} :
            /\ getSemverVersion(version) = Normalized(version)
            /\ \/ getSemverVersion(version) = Null
               \/ IsSemanticVersion(getSemverVersion(version))

\* C16 witness: ">= 1.0.0" has been normalized to "1.0.0" and
\* "workspace:^1.0.0" to None, and their comparison is unknown.
C16_Witness ==
    /\ Compared
    /\ version1 = <<Op(">"), Op("="), Sp, Num(1, 0, 0)>>
    /\ version2 = <<WorkspaceProtocol, Op("^"), Num(1, 0, 0)>>
    /\ getSemverVersion(version1) = <<Num(1, 0, 0)>>
    /\ getSemverVersion(version2) = Null
    /\ comparison.semverDiff = "unknown"

(***************************************************************************)
(* The edits of SpecUpdate.                                                *)
(***************************************************************************)

\* The last run() was run({ update: true, dryRun })
Updated == lastRun.mode = "update"

\* C17: no edit is emitted for a package declaration whose raw version is
\* a workspace declaration (it starts with "workspace:" or is "*"),
\* whatever the root declares.
C17_NoEditForWorkspace ==
    Updated =>
        \A i \in DOMAIN updates : ~WorkspaceDeclaration(updates[i].from)

\* C20: no edit lowers a version: when the version strings of an edit
\* both normalize, the version number of the new one is greater than or
\* equal to that of the old one.
C20_NeverLowers ==
    Updated =>
        \A i \in DOMAIN updates :
            (/\ getSemverVersion(updates[i].from) # Null
             /\ getSemverVersion(updates[i].to) # Null)
            => semverCompare(semverParse(getSemverVersion(updates[i].to)),
                             semverParse(getSemverVersion(updates[i].from)))
                   # "lt"

(***************************************************************************)
(* SpecFailure: every mode of run() on manifests that may be missing, may  *)
(* hold text that does not parse, or may not be writable.                  *)
(***************************************************************************)

\* No file is at the path
Absent ==
    [name |-> "", dependencies |-> <<>>, devDependencies |-> <<>>,
     peerDependencies |-> <<>>, layout |-> "absent", writable |-> FALSE]

\* A manifest that declares axios as a dependency
DeclaresAxios(name, version) ==
    PackageJson(name, <<[name |-> "axios", value |-> version]>>, <<>>, <<>>)

\* The same manifest in a file that is not writable
ReadOnly(packageJson) == [packageJson EXCEPT !.writable = FALSE]

\* The root manifest: axios "^1.2.0", text that does not parse, or no file
FailureRoots ==
    { DeclaresAxios("app", <<Op("^"), Num(1, 2, 0)>>), InvalidJson, Absent }

\* A package manifest: axios "~1.0.0" (behind the root), the same in a
\* read-only file, axios "^1.2.0" (as the root), text that does not parse,
\* or no file
FailurePackages(name) ==
    { DeclaresAxios(name, <<Op("~"), Num(1, 0, 0)>>),
      ReadOnly(DeclaresAxios(name, <<Op("~"), Num(1, 0, 0)>>)),
      DeclaresAxios(name, <<Op("^"), Num(1, 2, 0)>>),
      InvalidJson,
      Absent }

\* --packages: the directory, or the two manifests by path
FailureInputs == {<<PackagesDir>>, <<Pkg1Path, Pkg2Path>>}

\* The file system that holds the given files
FileSystem(root, pkg1, pkg2) ==
    LET at == (AppPath :> root) @@ (Pkg1Path :> pkg1) @@ (Pkg2Path :> pkg2)
    IN  [path \in {q \in DOMAIN at : at[q] # Absent} |-> at[path]]

InitFailure ==
    /\ NotComparing
    /\ \E root \in FailureRoots,
          pkg1 \in FailurePackages("pkg1"),
          pkg2 \in FailurePackages("pkg2"),
          input \in FailureInputs :
          Constructed(FileSystem(root, pkg1, pkg2), input)

NextFailure ==
    \/ RunCheckMissing
    \/ RunCheckVersions
    \/ RunUpdateDry
    \/ RunUpdateApply
    \/ RunDefaultText
    \/ RunDefaultJson

SpecFailure == InitFailure /\ [][NextFailure]_vars

\* The manifests the last run() needed: the root, every path given in
\* --packages, and every manifest that exists in a directory given there
RequiredManifests ==
    {AppPath}
    \cup ({packagesInput[i] : i \in DOMAIN packagesInput} \ {PackagesDir})
    \cup {path \in {Pkg1Path, Pkg2Path} :
              /\ \E i \in DOMAIN packagesInput : packagesInput[i] = PackagesDir
              /\ path \in DOMAIN filesBefore}

\* The manifest could not be read or parsed when the last run() began
CannotBeRead(path) ==
    \/ path \notin DOMAIN filesBefore
    \/ filesBefore[path].layout = "invalid"

\* C18: if the root manifest, or any manifest the run needs, cannot be
\* read or parsed, run() rejects in every mode, and no manifest has been
\* written when it does.
C18_UnreadableRejects ==
    (runs > 0 /\ \E path \in RequiredManifests : CannotBeRead(path))
    => /\ outcome = "rejected"
       /\ written = <<>>
       /\ files = filesBefore

\* C18 witness: an applied update has rejected on text that does not
\* parse in pkg2's manifest, with pkg1's manifest behind the root.
C18_Witness ==
    /\ Applied
    /\ outcome = "rejected"
    /\ packagesInput = <<PackagesDir>>
    /\ ~CannotBeRead(AppPath)
    /\ ~CannotBeRead(Pkg1Path)
    /\ Pkg2Path \in DOMAIN filesBefore
    /\ CannotBeRead(Pkg2Path)
    /\ files[Pkg1Path].dependencies # files[AppPath].dependencies

\* The file system with every file writable
AllWritable(fs) == [path \in DOMAIN fs |-> [fs[path] EXCEPT !.writable = TRUE]]

\* C19: when the write of one package manifest fails during an applied
\* update, that manifest is not written, and every other package manifest
\* is written exactly as it would have been without the failure.
C19_FailureIsolated ==
    (/\ Applied
     /\ outcome = "rejected"
     /\ \A path \in RequiredManifests : ~CannotBeRead(path))
    => \A i \in DOMAIN packageJsonFiles :
           LET path == packageJsonFiles[i]
           IN  path # AppPath =>
                   IF filesBefore[path].writable
                   THEN files[path] =
                            updateDependencies(AllWritable(filesBefore),
                                               packageJsonFiles,
                                               FALSE).fs[path]
                   ELSE files[path] = filesBefore[path]

(***************************************************************************)
(* The dependency map of SpecVersions.                                     *)
(***************************************************************************)

\* The package set of version entry v of dependency d in the map
PackagesOf(map, d, v) ==
    IF Has(map, d) /\ Has(Get(map, d).versions, v)
    THEN Get(Get(map, d).versions, v).packages
    ELSE {}

\* The names of the manifests of paths that declare d with exactly v
Declarers(fs, paths, d, v) ==
    { fs[paths[i]].name
      : i \in { k \in DOMAIN paths : v \in DeclaredVersions(fs, <<paths[k]>>, d) } }

\* C21: after the manifests are aggregated, package name p is in the
\* package set of version entry v of dependency d exactly when a manifest
\* named p declares d with the raw string v in one of its three sections;
\* every version entry is a raw string some manifest declares, workspace
\* declarations included.
C21_AggregationMembership ==
    Reported_ =>
        \A d \in DepNames \cup Keys(dependencyMap) :
            /\ (Has(dependencyMap, d)
                => Keys(Get(dependencyMap, d).versions)
                       = DeclaredVersions(files, packageJsonFiles, d))
            /\ \A v \in ReportVersions
                        \cup DeclaredVersions(files, packageJsonFiles, d) :
                   PackagesOf(dependencyMap, d, v)
                       = Declarers(files, packageJsonFiles, d, v)

\* C21 witness: the manifests declare axios as "^1.2.0", as "~1.2.0" and
\* as "workspace:*", and the map holds the three entries.
C21_Witness ==
    /\ Reported_
    /\ PackagesOf(dependencyMap, "axios", <<Op("^"), Num(1, 2, 0)>>) # {}
    /\ PackagesOf(dependencyMap, "axios", <<Op("~"), Num(1, 2, 0)>>) # {}
    /\ PackagesOf(dependencyMap, "axios", <<WorkspaceProtocol, Star>>) # {}

(***************************************************************************)
(* SpecRootOnly: the version report when packages/ holds no manifest, so   *)
(* that the root manifest is the only one analysed.                        *)
(***************************************************************************)

InitRootOnly ==
    /\ NotComparing
    /\ \E root \in Declarations(ReportPackageSlots, ReportVersions, 3) :
          Constructed((AppPath :> Manifest("app", root)), <<PackagesDir>>)

NextRootOnly == RunCheckVersions \/ RunDefaultText \/ RunDefaultJson

SpecRootOnly == InitRootOnly /\ [][NextRootOnly]_vars

\* The last run() reported on the root manifest alone
ReportedRootOnly == Reported_ /\ packageJsonFiles = <<AppPath>>

\* C22 as stated: when only the root manifest is analysed, the version
\* check finds no conflict (it reports that no version differences were
\* found), whatever the root manifest holds.
C22_RootOnlyNoConflict == ReportedRootOnly => conflictingDeps = <<>>

\* C22 as amended: when only the root manifest is analysed, the version
\* check finds no conflict exactly when the root manifest declares no
\* dependency with two different raw version strings in its own sections;
\* a dependency it declares with two is reported as a conflict.
C22_RootOnlyConflictIffSelfDisagrees ==
    ReportedRootOnly =>
        /\ ConflictNames =
               { d \in DepNames :
                   Cardinality(DeclaredVersions(files, <<AppPath>>, d)) > 1 }
        /\ conflictingDeps = <<>>
           <=> \A d \in DepNames :
                   Cardinality(DeclaredVersions(files, <<AppPath>>, d)) <= 1

\* C22 witness: the root manifest alone was analysed, it declares axios in
\* two sections with one version string and lodash besides, and no
\* conflict is reported.
C22_Witness ==
    /\ ReportedRootOnly
    /\ Has(files[AppPath].dependencies, "axios")
    /\ Has(files[AppPath].devDependencies, "axios")
    /\ Has(files[AppPath].dependencies, "lodash")
    /\ conflictingDeps = <<>>

(***************************************************************************)
(* Sequences of run() calls on one instance, in SpecFailure.               *)
(***************************************************************************)

\* The last run() resolved after analyzeDependencies
Analysed == outcome = "resolved" /\ lastRun.mode # "checkMissing"

\* C23: no state persists across runs: the dependency records and the
\* workspace set a run uses are built only from the manifests as they are
\* at that run, and the run reports no version entry that no current
\* manifest declares.
C23_NoStateAcrossRuns ==
    Analysed =>
        /\ dependencyMap =
               analyzeDependencies(filesBefore, packageJsonFiles, <<>>)
        /\ workspacePackages =
               findWorkspacePackages(filesBefore, packagesInput, {})
        /\ \A i \in DOMAIN conflictingDeps :
               \A j \in DOMAIN conflictingDeps[i].versions :
                   conflictingDeps[i].versions[j].version
                       \in DeclaredVersions(filesBefore, packageJsonFiles,
                                            conflictingDeps[i].name)

(***************************************************************************)
(* The fold of analyzeDependencies, on the manifests of SpecVersions.      *)
(***************************************************************************)

\* What a map holds whatever the order of its keys: the dependency names,
\* each with its flags and its version strings, each of these with its
\* package set and its usage tags
Content(map) ==
    { [dep |-> map[i].name,
       usedAsNormal |-> map[i].value.usedAsNormal,
       usedAsPeer |-> map[i].value.usedAsPeer,
       versions |->
           { [version |-> map[i].value.versions[j].name,
              packages |-> map[i].value.versions[j].value.packages,
              usages |-> map[i].value.versions[j].value.usages]
             : j \in DOMAIN map[i].value.versions }]
      : i \in DOMAIN map }

\* Every order of the elements of a list
Orders(paths) ==
    { [i \in DOMAIN paths |-> paths[f[i]]] : f \in Permutations(DOMAIN paths) }

\* C24: every order in which the manifests are folded gives a map with
\* the same dependency names, version strings, package sets, usage tags
\* and flags, and folding the manifests once more changes nothing.
C24_FoldOrderIndependent ==
    Reported_ =>
        /\ \A order \in Orders(packageJsonFiles) :
               Content(analyzeDependencies(files, order, <<>>))
                   = Content(dependencyMap)
        /\ analyzeDependencies(files, packageJsonFiles, dependencyMap)
               = dependencyMap

\* C24 witness: the manifests have been folded twice on one instance, and
\* some order of them builds the map with its keys in another order.
C24_Witness ==
    /\ Reported_
    /\ runs = 2
    /\ \E order \in Orders(packageJsonFiles) :
           analyzeDependencies(files, order, <<>>) # dependencyMap

(***************************************************************************)
(* The comparisons of the text report, in SpecVersions.                    *)
(***************************************************************************)

\* The last run() went through displayVersionDifferences
ReportedText == Reported_ /\ lastRun.format = "text"

\* The positions of a comparison's two versions among the version entries
PairOf(versions, c) ==
    { <<a, b>> \in (DOMAIN versions) \X (DOMAIN versions) :
          /\ versions[a].version = c.version1
          /\ versions[b].version = c.version2 }

\* C25: for a conflicting dependency with n version entries the text
\* report holds n(n-1)/2 comparisons, one for every unordered pair of
\* distinct entries and none of a version with itself, and version1 of
\* every comparison was inserted into the record before version2.
C25_OneComparisonPerPair ==
    ReportedText =>
        \A i \in DOMAIN conflictingDeps :
            LET versions == conflictingDeps[i].versions
                comparisons == conflictingDeps[i].comparisons
                inserted == Get(dependencyMap, conflictingDeps[i].name).versions
            IN  /\ 2 * Len(comparisons) = Len(versions) * (Len(versions) - 1)
                /\ \A a \in DOMAIN versions :
                       versions[a].version = inserted[a].name
                /\ \A k \in DOMAIN comparisons :
                       /\ comparisons[k].version1 # comparisons[k].version2
                       /\ \A pair \in PairOf(versions, comparisons[k]) :
                              pair[1] < pair[2]
                       /\ PairOf(versions, comparisons[k]) # {}
                /\ \A a, b \in DOMAIN versions :
                       a < b =>
                           Cardinality(
                               { k \in DOMAIN comparisons :
                                   <<a, b>> \in PairOf(versions,
                                                       comparisons[k]) }) = 1

\* C25 witness: the text report lists a dependency with three version
\* entries and three comparisons.
C25_Witness ==
    /\ ReportedText
    /\ \E i \in DOMAIN conflictingDeps :
           /\ Len(conflictingDeps[i].versions) = 3
           /\ Len(conflictingDeps[i].comparisons) = 3

(***************************************************************************)
(* The classification of a comparison, in SpecCompare.                     *)
(***************************************************************************)

Classifications == {"major", "minor", "patch", "workspace", "unknown"}

\* C26: for every pair of raw version strings, versions with pre-release
\* identifiers and pairs with one normalized version included, the
\* classification recorded for the comparison (its semverDiff, and the
\* severity it is counted under) is one of major, minor, patch, workspace
\* and unknown.
C26_ClosedClassification ==
    Compared =>
        /\ comparison.semverDiff \in Classifications
        /\ comparison.severity \in Classifications

(***************************************************************************)
(* The reads and writes of one update run, in SpecUpdate.                  *)
(***************************************************************************)

\* The paths run({ update: true }) reads with fs.readFileSync, in order:
\* findWorkspacePackages reads every package manifest of the input,
\* analyzeDependencies every element of packageJsonFiles, and
\* updateDependencies the root and then every element that is not the root
ReadsOfUpdate(fs, input) ==
    InputManifests(fs, input)
    \o findPackageJsonFiles(fs, input)
    \o <<AppPath>>
    \o SelectSeq(findPackageJsonFiles(fs, input), LAMBDA path : path # AppPath)

\* How many times a path occurs in a list
Occurrences(paths, path) ==
    Cardinality({i \in DOMAIN paths : paths[i] = path})

\* Every package manifest is read at most once by the last update run
ReadAtMostOnce ==
    \A path \in {Pkg1Path, Pkg2Path} :
        Occurrences(ReadsOfUpdate(filesBefore, packagesInput), path) <= 1

\* Every package manifest is written at most once by the last update run
WrittenAtMostOnce ==
    \A path \in {Pkg1Path, Pkg2Path} : Occurrences(written, path) <= 1

\* C27: during one update run every package manifest is read at most once
\* and written at most once, also when the packages input reaches a
\* manifest through more than one entry.
C27_ReadAndWrittenOnce == Updated => (ReadAtMostOnce /\ WrittenAtMostOnce)

(***************************************************************************)
(* SpecRun: run(options) with every combination of its options, on the     *)
(* manifests of SpecFailure.                                               *)
(***************************************************************************)

\* interface RunOptions, every option given
RunOptions ==
    [checkMissing : BOOLEAN, checkVersions : BOOLEAN, update : BOOLEAN,
     dryRun : BOOLEAN, format : {"text", "json"}]

\* A mutant of run: the update branch is tested first
runUpdateFirst(options) ==
    IF options.update THEN RunUpdate(options.dryRun)
    ELSE IF options.checkMissing THEN RunCheckMissing
    ELSE IF options.checkVersions THEN RunCheckVersions
    ELSE RunDefault(options.format)

\* DependencyChecker.run: the first of checkMissing, checkVersions and
\* update that is set decides what the run does
run(options) ==
    IF options.checkMissing THEN RunCheckMissing
    ELSE IF options.checkVersions THEN RunCheckVersions
    ELSE IF options.update THEN RunUpdate(options.dryRun)
    ELSE RunDefault(options.format)

NextRun == \E options \in RunOptions : run(options)

SpecRun == InitFailure /\ [][NextRun]_vars

\* What one run(options) may write: nothing unless update is set without
\* checkMissing, checkVersions and dryRun, and then only manifests other
\* than the root for which the run found at least one edit
WriteFrame(options) ==
    /\ \A path \in DOMAIN files :
           files'[path] # files[path]
           => \E i \in DOMAIN written' : written'[i] = path
    /\ \A i \in DOMAIN written' :
           /\ options.update /\ ~options.dryRun
           /\ ~options.checkMissing /\ ~options.checkVersions
           /\ written'[i] # AppPath
           /\ ManifestUpdates(AppDependencies(files[AppPath]),
                              files[written'[i]]) # <<>>

\* C28: a manifest is written only by a run with update set and dryRun
\* not set, and then only a manifest other than the root for which at
\* least one edit was produced; the root and the manifests without edits
\* are never written, and a run with checkMissing or checkVersions set
\* writes nothing, also when update is set too.
C28_WriteFrame ==
    [][\A options \in RunOptions : run(options) => WriteFrame(options)]_vars

\* C28 witness: an applied update has written pkg1's manifest and left the
\* root's and pkg2's as they were.
C28_Witness ==
    /\ Applied
    /\ outcome = "resolved"
    /\ written = <<Pkg1Path>>
    /\ files[Pkg1Path] # filesBefore[Pkg1Path]
    /\ files[AppPath] = filesBefore[AppPath]
    /\ Pkg2Path \in DOMAIN files
    /\ files[Pkg2Path] = filesBefore[Pkg2Path]

(***************************************************************************)
(* The edit lists of the two update modes, in SpecUpdate.                  *)
(***************************************************************************)

\* C29: on the manifests and the packages input of the last update run,
\* the edit list that the run reported equals, element for element, the
\* one an update run in the other mode (dry run for an applied update,
\* applied update for a dry run) reports.
C29_DryRunListEqualsApplyList ==
    Updated =>
        updates = updateDependencies(filesBefore, packageJsonFiles,
                                     ~lastRun.dryRun).updates

\* C30: no edit is emitted for a dependency that the root declares with
\* a workspace declaration or with a version that does not normalize to a
\* semantic version, and the new version of every edit, its range prefix
\* removed, is a valid semantic version.
C30_EditsOnlyToSemanticVersions ==
    Updated =>
        \A i \in DOMAIN updates :
            LET rootVersion ==
                    Get(AppDependencies(filesBefore[AppPath]),
                        updates[i].dependency)
            IN  /\ ~WorkspaceDeclaration(rootVersion)
                /\ getSemverVersion(rootVersion) # Null
                /\ semverValid(StripRangePrefix(updates[i].to))

====
